---- MODULE Spec2Model ----
(***************************************************************************)
(* A model of the value-storage core of starlark-rust:                     *)
(*   - collections/vec_map.rs : VecMap, the insertion-ordered map          *)
(*   - values/layout/avalue.rs: Wrapper<Mode, T>, the AValue envelope      *)
(* Rust indices are 0-based; a Vec is a TLA+ sequence, so the bucket at    *)
(* Rust index i is buckets[i + 1].  Option<T> is a sequence of length 0    *)
(* (None) or 1 (Some(x)).                                                  *)
(***************************************************************************)
EXTENDS Integers, Sequences, FiniteSets, TLC

\* ------------------------------------------------------------------ bounds
NumKeys == 3
NumVals == 2
NumHashes == 2
MaxInserts == 3

Keys == 1..NumKeys
Values == 1..NumVals

\* ------------------------------------------------------------------ Option
None == << >>
Some(x) == << x >>
IsSome(o) == Len(o) = 1
IsNone(o) == Len(o) = 0
Unwrap(o) == o[1]

\* ------------------------------------------------------------ hash handles
\* The truncated hash of a key: a fixed function with collisions.
HashFn(k) == k % NumHashes

\* Hashed::new(key) / BorrowHashed::new(&key): the key with its hash.
Hashed(k) == [hash |-> HashFn(k), key |-> k]

\* Equivalent::equivalent(&self, key: &K).
Equivalent(q, k) == q = k

Handles == { Hashed(k) : k \in Keys }

\* ------------------------------------------------------------------ state
VARIABLES
    buckets,    \* VecMap::buckets, the Vec<Bucket<K, V>>
    op,         \* the last call on the map: its name
    arg,        \* the last call: its handle (Option) and value (Option)
    ret,        \* the last call: what it returned (Option)
    before,     \* the last call: the buckets it was called on
    log,        \* every (key, value) ever inserted, in call order
    gone,       \* indices of log whose entry a later call took out
    boxes,      \* the Box<dyn AValue> values held: slot -> Option<Wrapper>
    wop,        \* the last call on a heap value: its name
    wslot,      \* the last call: the slot of the value it was called on
    wself,      \* the last call: the value it was called on (Option)
    wwith,      \* the last call: the Tracer or Freezer it was given
    wret,       \* the last call: the Result it returned (Option)
    pcalls,     \* the last call: the payload methods it invoked, in order
    visits,     \* the last call: the references visited through the Tracer
    mheap,      \* the mutable heap: node -> Option<Wrapper>, None once taken
    forward,    \* the nodes overwritten by a forward to the frozen heap
    fheap,      \* the frozen heap: node -> Option<Wrapper>, None until filled
    fstack,     \* the into_simple calls in progress, innermost last
    fstatus,    \* "mutable", "freezing", "frozen" or "failed"
    ferror,     \* the error being returned, or reported at last (Option)
    pfail,      \* the first error a payload's freeze routine returned (Option)
    nfreeze,    \* node -> how often its payload's freeze routine was invoked
    born,       \* the mutable heap as it was when the freeze began
    it,         \* the iterator in use (Option): its kind and its buckets left
    itop,       \* the last call on the iterator: its name
    itarg,      \* the last call: its argument
    itret,      \* the last call: what it returned
    itbefore,   \* the last call: the iterator it was called on (Option)
    cargs,      \* the Vec<CstArgument> of the call expression being compiled
    cres,       \* the ArgsCompiledValue being built, then returned
    cop,        \* "parse", "args", or the last call on the returned value
    cret        \* what the last call on the returned value returned

mapVars == <<buckets, op, arg, ret, before, log, gone>>
wrapVars == <<boxes, wop, wslot, wself, wwith, wret, pcalls, visits>>
passVars ==
    <<mheap, forward, fheap, fstack, fstatus, ferror, pfail, nfreeze, born>>
iterVars == <<it, itop, itarg, itret, itbefore>>
argsVars == <<cargs, cres, cop, cret>>
vars == <<buckets, op, arg, ret, before, log, gone,
          boxes, wop, wslot, wself, wwith, wret, pcalls, visits,
          mheap, forward, fheap, fstack, fstatus, ferror, pfail, nfreeze, born,
          it, itop, itarg, itret, itbefore,
          cargs, cres, cop, cret>>

\* ------------------------------------------------------------------ VecMap
Bucket(h, k, v) == [hash |-> h, key |-> k, value |-> v]

len(bs) == Len(bs)

is_empty(bs) == Len(bs) = 0

\* get_full: scan from index 0, the first bucket whose stored hash equals the
\* handle's and whose key is equivalent to the handle's.
RECURSIVE get_full_from(_, _, _)
get_full_from(bs, key, i) ==
    IF i >= Len(bs) THEN None
    ELSE LET b == bs[i + 1] IN
         IF b.hash = key.hash /\ Equivalent(key.key, b.key)
         THEN Some(<<i, b.key, b.value>>)
         ELSE get_full_from(bs, key, i + 1)

\* Faulty variant: the stored hash alone decides a match.
RECURSIVE get_full_hash_only_from(_, _, _)
get_full_hash_only_from(bs, key, i) ==
    IF i >= Len(bs) THEN None
    ELSE LET b == bs[i + 1] IN
         IF b.hash = key.hash
         THEN Some(<<i, b.key, b.value>>)
         ELSE get_full_hash_only_from(bs, key, i + 1)

get_full_hash_only(bs, key) == get_full_hash_only_from(bs, key, 0)

\* Faulty variant: the scan keeps going and answers with the last match.
RECURSIVE get_full_last_from(_, _, _, _)
get_full_last_from(bs, key, i, found) ==
    IF i >= Len(bs) THEN found
    ELSE LET b == bs[i + 1] IN
         IF b.hash = key.hash /\ Equivalent(key.key, b.key)
         THEN get_full_last_from(bs, key, i + 1, Some(<<i, b.key, b.value>>))
         ELSE get_full_last_from(bs, key, i + 1, found)

get_full_last(bs, key) == get_full_last_from(bs, key, 0, None)

\* Faulty variant: the scan starts at index 1.
get_full_skip_first(bs, key) == get_full_from(bs, key, 1)

get_full(bs, key) == get_full_from(bs, key, 0)

get_index_of_hashed(bs, key) ==
    LET r == get_full(bs, key) IN
    IF IsSome(r) THEN Some(Unwrap(r)[1]) ELSE None

\* Faulty variant: the index is taken to count from 1.
get_index_from_one(bs, index) ==
    IF 0 < index /\ index <= Len(bs)
    THEN Some(<<bs[index].key, bs[index].value>>)
    ELSE None

get_index(bs, index) ==
    IF index < Len(bs) THEN Some(<<bs[index + 1].key, bs[index + 1].value>>)
    ELSE None

\* get_unchecked(index): the bucket at the index, for index < len; what it
\* reads otherwise is not defined.
get_unchecked(bs, index) == bs[index + 1]

\* Faulty variant: the new bucket goes to the front.
insert_front(bs, key, value) ==
    << Bucket(key.hash, key.key, value) >> \o bs

\* Faulty variant: a bucket of an equivalent key is given the new value, and
\* a bucket is pushed only when there is none.
insert_replacing(bs, key, value) ==
    IF \E i \in 1..Len(bs) : Equivalent(key.key, bs[i].key)
    THEN [i \in 1..Len(bs) |->
             IF Equivalent(key.key, bs[i].key)
             THEN Bucket(bs[i].hash, bs[i].key, value) ELSE bs[i]]
    ELSE Append(bs, Bucket(key.hash, key.key, value))

\* Faulty variant: the bucket is pushed twice.
insert_unique_unchecked_twice(bs, key, value) ==
    Append(Append(bs, Bucket(key.hash, key.key, value)),
           Bucket(key.hash, key.key, value))

\* Faulty variant: the bucket does not get the hash of the handle.
insert_unique_unchecked_other_hash(bs, key, value) ==
    Append(bs, Bucket((key.hash + 1) % NumHashes, key.key, value))

\* insert_unique_unchecked: push one bucket holding the handle's hash.
insert_unique_unchecked(bs, key, value) ==
    Append(bs, Bucket(key.hash, key.key, value))

\* Faulty variant: Vec::swap_remove(i), the last element takes the place of i.
VecSwapRemove(bs, i) ==
    IF i + 1 = Len(bs) THEN SubSeq(bs, 1, i)
    ELSE SubSeq(bs, 1, i) \o << bs[Len(bs)] >> \o SubSeq(bs, i + 2, Len(bs) - 1)

\* Faulty variant: the element after i is taken out.
VecRemoveNext(bs, i) == SubSeq(bs, 1, i + 1) \o SubSeq(bs, i + 3, Len(bs))

\* Vec::remove(i): take out element i, shifting the later ones down by one.
VecRemove(bs, i) == SubSeq(bs, 1, i) \o SubSeq(bs, i + 2, Len(bs))

\* remove_hashed_entry: the buckets afterwards and the returned Option.
RECURSIVE remove_scan(_, _, _)
remove_scan(bs, key, i) ==
    IF i >= Len(bs) THEN [buckets |-> bs, ret |-> None]
    ELSE IF bs[i + 1].hash = key.hash /\ Equivalent(key.key, bs[i + 1].key)
         THEN [buckets |-> VecRemove(bs, i),
               ret |-> Some(<<bs[i + 1].key, bs[i + 1].value>>)]
         ELSE remove_scan(bs, key, i + 1)

remove_hashed_entry(bs, key) ==
    IF Len(bs) = 0 THEN [buckets |-> bs, ret |-> None]
    ELSE remove_scan(bs, key, 0)

clear(bs) == << >>

\* The iterators, collected: slice::Iter over the buckets, each mapped by the
\* iterator's map function.
VMKeys_map(b) == b.key
VMValues_map(b) == b.value
VMIter_map(b) == <<b.key, b.value>>

keys(bs) == [i \in 1..Len(bs) |-> VMKeys_map(bs[i])]
values(bs) == [i \in 1..Len(bs) |-> VMValues_map(bs[i])]
iter(bs) == [i \in 1..Len(bs) |-> VMIter_map(bs[i])]

\* ------------------------------------------------------------- map actions
\* The log entries a handle names that are still in the map.
Named(key) == { i \in (1..Len(log)) \ gone : Equivalent(key.key, log[i][1]) }

MapInit ==
    /\ buckets = << >>
    /\ op = "new"
    /\ arg = <<None, None>>
    /\ ret = None
    /\ before = << >>
    /\ log = << >>
    /\ gone = {}

Insert(key, value) ==
    /\ Len(log) < MaxInserts
    /\ buckets' = insert_unique_unchecked(buckets, key, value)
    /\ op' = "insert_unique_unchecked"
    /\ arg' = <<Some(key), Some(value)>>
    /\ ret' = None
    /\ before' = buckets
    /\ log' = Append(log, <<key.key, value>>)
    /\ gone' = gone
    /\ UNCHANGED <<wrapVars, passVars, iterVars, argsVars>>

GetFull(key) ==
    /\ op' = "get_full"
    /\ arg' = <<Some(key), None>>
    /\ ret' = get_full(buckets, key)
    /\ before' = buckets
    /\ UNCHANGED <<buckets, log, gone>>
    /\ UNCHANGED <<wrapVars, passVars, iterVars, argsVars>>

Remove(key) ==
    /\ buckets' = remove_hashed_entry(buckets, key).buckets
    /\ op' = "remove_hashed_entry"
    /\ arg' = <<Some(key), None>>
    /\ ret' = remove_hashed_entry(buckets, key).ret
    /\ before' = buckets
    /\ log' = log
    /\ gone' = gone \cup Named(key)
    /\ UNCHANGED <<wrapVars, passVars, iterVars, argsVars>>

Clear ==
    /\ buckets' = clear(buckets)
    /\ op' = "clear"
    /\ arg' = <<None, None>>
    /\ ret' = None
    /\ before' = buckets
    /\ log' = log
    /\ gone' = 1..Len(log)
    /\ UNCHANGED <<wrapVars, passVars, iterVars, argsVars>>

MapNext ==
    \/ \E key \in Handles, value \in Values : Insert(key, value)
    \/ \E key \in Handles : GetFull(key)
    \/ \E key \in Handles : Remove(key)
    \/ Clear

\* -------------------------------------------------------------- heap values
NumSlots == 2
NumTypes == 2
NumRefs == 1
NumTracers == 2
NumFreezers == 2
NumErrors == 2

Slots == 1..NumSlots
TypeIds == 1..NumTypes
\* A payload's data, abstracted to two contents.
Data == {0, 1}
Refs == 1..NumRefs
Tracers == 1..NumTracers
Freezers == 1..NumFreezers
Errors == 1..NumErrors

\* A payload T: its type identity and its data.
Payloads == [ty : TypeIds, data : Data]

\* anyhow::Result<T>.
Ok(x) == [ok |-> TRUE, val |-> Some(x), err |-> None]
Err(e) == [ok |-> FALSE, val |-> None, err |-> Some(e)]

\* What a payload's own freeze routine may return: a frozen payload or an error.
FreezeResults == { Ok(x) : x \in Payloads } \cup { Err(e) : e \in Errors }

\* What a payload's own trace routine may do: the references it visits
\* through the Tracer and the data it holds afterwards (it has &mut self).
TraceEffects == [visits : SUBSET Refs, data : Data]

\* A SimpleValue payload has neither routine: nothing is visited, nothing
\* changes, and a freeze would be the identity.
NoTraceEffect(x) == [visits |-> {}, data |-> x.data]

\* One invocation of a payload method by the envelope: the method, the payload
\* it was invoked on, the Tracer or Freezer handed to it, and what it did.
Call(fn, x, with, out) == [fn |-> fn, payload |-> x, with |-> with, out |-> out]

\* struct Wrapper<Mode, T>(Mode, T).
Wrapper(mode, x) == [mode |-> mode, payload |-> x]

simple(x) == Wrapper("Simple", x)

complex(x) == Wrapper("Complex", x)

\* coerce: Box<Wrapper<Complex, T>> to Box<T>.
coerce(w) == w.payload

\* Faulty variant: the Simple envelope forwards trace to the payload.
Simple_trace_forwarding(self, tracer, eff) ==
    [self |-> Wrapper(self.mode, [self.payload EXCEPT !.data = eff.data]),
     pcalls |-> << Call("trace", self.payload, tracer, eff) >>,
     visits |-> eff.visits]

\* Faulty variant: the Simple envelope freezes its payload again.
Simple_into_simple_refreezing(self, freezer, res) ==
    [ret |-> IF res.ok THEN Ok(simple(Unwrap(res.val)))
             ELSE Err(Unwrap(res.err)),
     pcalls |-> << Call("freeze", self.payload, freezer, res) >>]

\* impl AValue for Wrapper<Simple, T>
Simple_trace(self, tracer, eff) ==
    [self |-> self, pcalls |-> << >>, visits |-> {}]

Simple_into_simple(self, freezer, res) ==
    [ret |-> Ok(self), pcalls |-> << >>]

\* Faulty variant: the frozen payload is wrapped as Complex again.
Complex_into_simple_rewrapping(self, freezer, res) ==
    [ret |-> IF res.ok THEN Ok(complex(Unwrap(res.val)))
             ELSE Err(Unwrap(res.err)),
     pcalls |-> << Call("freeze", coerce(self), freezer, res) >>]

\* Faulty variant: a failed freeze is answered with the unfrozen payload.
Complex_into_simple_swallowing(self, freezer, res) ==
    [ret |-> IF res.ok THEN Ok(simple(Unwrap(res.val)))
             ELSE Ok(simple(coerce(self))),
     pcalls |-> << Call("freeze", coerce(self), freezer, res) >>]

\* Faulty variant: the payload is frozen, but it is the payload as it was
\* before the freeze that is wrapped as Simple.
Complex_into_simple_keeping(self, freezer, res) ==
    [ret |-> IF res.ok THEN Ok(simple(coerce(self)))
             ELSE Err(Unwrap(res.err)),
     pcalls |-> << Call("freeze", coerce(self), freezer, res) >>]

\* Faulty variant: the payload's freeze routine is invoked a second time.
Complex_into_simple_twice(self, freezer, res) ==
    [ret |-> IF res.ok THEN Ok(simple(Unwrap(res.val)))
             ELSE Err(Unwrap(res.err)),
     pcalls |-> << Call("freeze", coerce(self), freezer, res),
                   Call("freeze", coerce(self), freezer, res) >>]

\* Faulty variant: the Complex envelope does not trace its payload.
Complex_trace_skipping(self, tracer, eff) ==
    [self |-> self, pcalls |-> << >>, visits |-> {}]

\* impl AValue for Wrapper<Complex, T>; eff and res are what the payload's
\* trace and freeze do when invoked.
Complex_trace(self, tracer, eff) ==
    [self |-> Wrapper(self.mode, [self.payload EXCEPT !.data = eff.data]),
     pcalls |-> << Call("trace", self.payload, tracer, eff) >>,
     visits |-> eff.visits]

Complex_into_simple(self, freezer, res) ==
    LET x == coerce(self) IN
    [ret |-> IF res.ok THEN Ok(simple(Unwrap(res.val)))
             ELSE Err(Unwrap(res.err)),
     pcalls |-> << Call("freeze", x, freezer, res) >>]

\* dyn AValue: the call goes to the impl of the value's mode.
trace(self, tracer, eff) ==
    IF self.mode = "Simple" THEN Simple_trace(self, tracer, eff)
    ELSE Complex_trace(self, tracer, eff)

into_simple(self, freezer, res) ==
    IF self.mode = "Simple" THEN Simple_into_simple(self, freezer, res)
    ELSE Complex_into_simple(self, freezer, res)

\* A payload type's own AnyLifetime::static_type_id.
Payload_static_type_id(x) == x.ty

\* Faulty variant: the envelope has a type identity of its own, one per mode,
\* outside the identities of the payload types.
static_type_id_of_envelope(self) ==
    IF self.mode = "Simple" THEN NumTypes + 1 ELSE NumTypes + 2

\* impl AnyLifetime for Wrapper<Mode, T>: T::static_type_id().
static_type_id(self) == Payload_static_type_id(self.payload)

static_type_of(self) == static_type_id(self)

\* The downcast of a value to the type of identity U: the identities are
\* compared and, when equal, the value is read as a U; the envelope is
\* repr(C) with a zero-sized mode, so that what is read is its payload.
downcast_ref(self, U) ==
    IF static_type_of(self) = U THEN Some(coerce(self)) ELSE None

\* -------------------------------------------------- capability interface
\* The methods of impl StarlarkValue for Wrapper<Mode, T>: those that return
\* a plain value and those that return an anyhow::Result (radd: an Option of
\* one).
Infallible ==
    { "get_type", "get_type_value", "matches_type", "get_methods",
      "collect_repr", "to_bool", "get_attr", "has_attr", "dir_attr",
      "export_as" }

Fallible ==
    { "to_json", "to_int", "get_hash", "equals", "compare", "invoke", "at",
      "slice", "iterate", "length", "is_in", "plus", "minus", "radd", "add",
      "sub", "mul", "percent", "floor_div", "bit_and", "bit_or", "bit_xor",
      "left_shift", "right_shift", "set_at", "set_attr" }

Methods == Infallible \cup Fallible

\* The arguments of a call, abstracted to two contents.
Args == {0, 1}

\* What a payload's method may return: a value, or an error if it is fallible.
MethodReturns(m) ==
    { Ok(v) : v \in Data }
        \cup (IF m \in Fallible THEN { Err(e) : e \in Errors } ELSE {})

\* What a payload's method may do: what it returns and the data the payload
\* holds afterwards (it has &self, and may mutate behind it).
MethodEffects(m) == [ret : MethodReturns(m), data : Data]

\* The payload method that the envelope's method m calls: self.1.m(..).
Callee(m) == m

\* Faulty variant: export_as is left to a default that does nothing.
Wrapper_method_defaulting(self, m, args, out) ==
    IF m = "export_as"
    THEN [self |-> self, ret |-> Ok(0), pcalls |-> << >>]
    ELSE [self |-> Wrapper(self.mode, [self.payload EXCEPT !.data = out.data]),
          ret |-> out.ret,
          pcalls |-> << Call(m, self.payload, args, out) >>]

\* Faulty variant: set_at and set_attr store the new value in the payload
\* themselves, after the payload's own method has run.
Wrapper_method_writing(self, m, args, out) ==
    [self |-> Wrapper(self.mode,
                      [self.payload EXCEPT
                          !.data = IF m \in {"set_at", "set_attr"}
                                   THEN args ELSE out.data]),
     ret |-> out.ret,
     pcalls |-> << Call(m, self.payload, args, out) >>]

\* impl StarlarkValue for Wrapper<Mode, T>, any Mode: method m is
\* self.1.m(args), and what that returns is returned.
Wrapper_method(self, m, args, out) ==
    [self |-> Wrapper(self.mode, [self.payload EXCEPT !.data = out.data]),
     ret |-> out.ret,
     pcalls |-> << Call(Callee(m), self.payload, args, out) >>]

\* ------------------------------------------------------ heap value actions
WrapInit ==
    /\ boxes = [s \in Slots |-> None]
    /\ wop = "new"
    /\ wslot = 1
    /\ wself = None
    /\ wwith = 0
    /\ wret = None
    /\ pcalls = << >>
    /\ visits = {}

NewSimple(s, x) ==
    /\ IsNone(boxes[s])
    /\ boxes' = [boxes EXCEPT ![s] = Some(simple(x))]
    /\ wop' = "simple"
    /\ wslot' = s
    /\ wself' = None
    /\ wwith' = 0
    /\ wret' = None
    /\ pcalls' = << >>
    /\ visits' = {}
    /\ UNCHANGED <<mapVars, passVars, iterVars, argsVars>>

NewComplex(s, x) ==
    /\ IsNone(boxes[s])
    /\ boxes' = [boxes EXCEPT ![s] = Some(complex(x))]
    /\ wop' = "complex"
    /\ wslot' = s
    /\ wself' = None
    /\ wwith' = 0
    /\ wret' = None
    /\ pcalls' = << >>
    /\ visits' = {}
    /\ UNCHANGED <<mapVars, passVars, iterVars, argsVars>>

\* value.trace(tracer) on the value in slot s.
Trace(s, tracer, eff) ==
    /\ IsSome(boxes[s])
    /\ LET r == trace(Unwrap(boxes[s]), tracer, eff) IN
        /\ boxes' = [boxes EXCEPT ![s] = Some(r.self)]
        /\ pcalls' = r.pcalls
        /\ visits' = r.visits
    /\ wop' = "trace"
    /\ wslot' = s
    /\ wself' = boxes[s]
    /\ wwith' = tracer
    /\ wret' = None
    /\ UNCHANGED <<mapVars, passVars, iterVars, argsVars>>

\* value.into_simple(freezer) on the value in slot s: the box is consumed and
\* the slot holds the returned box, if one is returned.
IntoSimple(s, freezer, res) ==
    /\ IsSome(boxes[s])
    /\ LET r == into_simple(Unwrap(boxes[s]), freezer, res) IN
        /\ boxes' = [boxes EXCEPT ![s] = r.ret.val]
        /\ pcalls' = r.pcalls
        /\ wret' = Some(r.ret)
    /\ visits' = {}
    /\ wop' = "into_simple"
    /\ wslot' = s
    /\ wself' = boxes[s]
    /\ wwith' = freezer
    /\ UNCHANGED <<mapVars, passVars, iterVars, argsVars>>

\* value.downcast_ref::<U>() on the value in slot s.
Downcast(s, U) ==
    /\ IsSome(boxes[s])
    /\ wret' = downcast_ref(Unwrap(boxes[s]), U)
    /\ wop' = "downcast"
    /\ wslot' = s
    /\ wself' = boxes[s]
    /\ wwith' = U
    /\ pcalls' = << >>
    /\ visits' = {}
    /\ UNCHANGED boxes
    /\ UNCHANGED <<mapVars, passVars, iterVars, argsVars>>

\* value.m(args) on the value in slot s, m a capability-interface method.
CallMethod(s, m, args, out) ==
    /\ IsSome(boxes[s])
    /\ LET r == Wrapper_method(Unwrap(boxes[s]), m, args, out) IN
        /\ boxes' = [boxes EXCEPT ![s] = Some(r.self)]
        /\ pcalls' = r.pcalls
        /\ wret' = Some(r.ret)
    /\ visits' = {}
    /\ wop' = m
    /\ wslot' = s
    /\ wself' = boxes[s]
    /\ wwith' = args
    /\ UNCHANGED <<mapVars, passVars, iterVars, argsVars>>

\* The record of the last call is dropped; the values stay as they are.
Forget ==
    /\ wop # "new"
    /\ wop' = "new"
    /\ wslot' = 1
    /\ wself' = None
    /\ wwith' = 0
    /\ wret' = None
    /\ pcalls' = << >>
    /\ visits' = {}
    /\ UNCHANGED boxes
    /\ UNCHANGED <<mapVars, passVars, iterVars, argsVars>>

\* What the payload of the value in a box may do when one of its routines is
\* invoked: the choices of a ComplexValue payload, and the one behaviour of a
\* SimpleValue payload.
TraceEffectsOf(b) ==
    IF IsNone(b) THEN {}
    ELSE IF Unwrap(b).mode = "Complex" THEN TraceEffects
    ELSE { NoTraceEffect(Unwrap(b).payload) }

FreezeResultsOf(b) ==
    IF IsNone(b) THEN {}
    ELSE IF Unwrap(b).mode = "Complex" THEN FreezeResults
    ELSE { Ok(Unwrap(b).payload) }

WrapNext ==
    \/ \E s \in Slots, x \in Payloads : NewSimple(s, x)
    \/ \E s \in Slots, x \in Payloads : NewComplex(s, x)
    \/ \E s \in Slots, tracer \in Tracers :
          \E eff \in TraceEffectsOf(boxes[s]) : Trace(s, tracer, eff)
    \/ \E s \in Slots, freezer \in Freezers :
          \E res \in FreezeResultsOf(boxes[s]) : IntoSimple(s, freezer, res)

\* A SimpleValue payload is immutable: its methods leave its data alone.
MethodEffectsOf(b, m) ==
    IF IsNone(b) THEN {}
    ELSE IF Unwrap(b).mode = "Complex" THEN MethodEffects(m)
    ELSE { e \in MethodEffects(m) : e.data = Unwrap(b).payload.data }

\* One call at a time, each starting with no record of the call before it.
LifeNext ==
    \/ wop = "new" /\ WrapNext
    \/ wop = "new" /\ \E s \in Slots, U \in TypeIds : Downcast(s, U)
    \/ wop = "new" /\ \E s \in Slots, m \in Methods, args \in Args :
          \E out \in MethodEffectsOf(boxes[s], m) : CallMethod(s, m, args, out)
    \/ Forget

\* ------------------------------------------------------------- freeze pass
\* The heap and its Freezer, as far as the freeze of a graph of values goes:
\* values are allocated on the mutable heap and reference each other, and one
\* pass freezes them all, each value by its into_simple.
NumNodes == 3
MaxRefs == 3

Nodes == 1..NumNodes

\* A reference a payload holds: to a value of the mutable or the frozen heap.
Ref(heap, id) == [heap |-> heap, id |-> id]

Allocated == { n \in Nodes : IsSome(mheap[n]) \/ n \in forward }

\* The references between the values of the mutable heap.
Edges ==
    { e \in Nodes \X Nodes :
        /\ IsSome(mheap[e[1]])
        /\ Ref("mutable", e[2]) \in Unwrap(mheap[e[1]]).payload.data }

\* The elements of a set of numbers, in ascending order.
RECURSIVE Ascending(_)
Ascending(S) ==
    IF S = {} THEN << >>
    ELSE LET n == CHOOSE i \in S : \A j \in S : i <= j
         IN << n >> \o Ascending(S \ {n})

PassInit ==
    /\ mheap = [n \in Nodes |-> None]
    /\ forward = {}
    /\ fheap = [n \in Nodes |-> None]
    /\ fstack = << >>
    /\ fstatus = "mutable"
    /\ ferror = None
    /\ pfail = None
    /\ nfreeze = [n \in Nodes |-> 0]
    /\ born = [n \in Nodes |-> None]

\* heap.alloc_simple(x) or heap.alloc_complex(x): the next free node holds
\* the payload in the envelope of its mode; the payload holds no reference yet.
Alloc(mode) ==
    /\ fstatus = "mutable"
    /\ Cardinality(Allocated) < NumNodes
    /\ LET n == Cardinality(Allocated) + 1
           x == [ty |-> 1, data |-> {}]
       IN mheap' = [mheap EXCEPT
                       ![n] = Some(IF mode = "Simple" THEN simple(x)
                                   ELSE complex(x))]
    /\ UNCHANGED <<forward, fheap, fstack, fstatus, ferror, pfail, nfreeze, born>>
    /\ UNCHANGED <<mapVars, wrapVars, iterVars, argsVars>>

\* The Complex value i is made to reference the value j.
AddRef(i, j) ==
    /\ fstatus = "mutable"
    /\ IsSome(mheap[i])
    /\ Unwrap(mheap[i]).mode = "Complex"
    /\ IsSome(mheap[j])
    /\ <<i, j>> \notin Edges
    /\ Cardinality(Edges) < MaxRefs
    /\ mheap' = [mheap EXCEPT
                    ![i] = Some(complex([Unwrap(mheap[i]).payload EXCEPT
                                            !.data = @ \cup {Ref("mutable", j)}]))]
    /\ UNCHANGED <<forward, fheap, fstack, fstatus, ferror, pfail, nfreeze, born>>
    /\ UNCHANGED <<mapVars, wrapVars, iterVars, argsVars>>

\* The freeze of the heap begins.
StartFreeze ==
    /\ fstatus = "mutable"
    /\ fstatus' = "freezing"
    /\ born' = mheap
    /\ UNCHANGED <<mheap, forward, fheap, fstack, ferror, pfail, nfreeze>>
    /\ UNCHANGED <<mapVars, wrapVars, iterVars, argsVars>>

Top == fstack[Len(fstack)]

\* freezer.freeze(n) for a value not yet forwarded, asked by the pass for the
\* first value left or by the payload whose freeze is running for its next
\* reference: the value is overwritten by a forward to a reserved place of
\* the frozen heap, and into_simple is called on the box that was taken.
Enter(n) ==
    /\ fstatus = "freezing"
    /\ IsNone(ferror)
    /\ n \in Allocated \ forward
    /\ IF fstack = << >>
       THEN \A k \in Allocated \ forward : n <= k
       ELSE Top.todo # << >> /\ n = Head(Top.todo)
    /\ forward' = forward \cup {n}
    /\ mheap' = [mheap EXCEPT ![n] = None]
    /\ LET box == Unwrap(mheap[n]) IN
       fstack' = Append(fstack,
                     [node |-> n,
                      box |-> box,
                      todo |-> Ascending({ r.id : r \in box.payload.data }),
                      got |-> {}])
    /\ UNCHANGED <<fheap, fstatus, ferror, pfail, nfreeze, born>>
    /\ UNCHANGED <<mapVars, wrapVars, iterVars, argsVars>>

\* freezer.freeze(n) for a value already forwarded: the forward is the answer.
Skip ==
    /\ fstatus = "freezing"
    /\ IsNone(ferror)
    /\ fstack # << >>
    /\ Top.todo # << >>
    /\ Head(Top.todo) \in forward
    /\ fstack' = [fstack EXCEPT
                     ![Len(fstack)].todo = Tail(@),
                     ![Len(fstack)].got = @ \cup {Ref("frozen", Head(Top.todo))}]
    /\ UNCHANGED <<mheap, forward, fheap, fstatus, ferror, pfail, nfreeze, born>>
    /\ UNCHANGED <<mapVars, wrapVars, iterVars, argsVars>>

\* What the freeze routine of the payload of frame f may return: the error
\* that freezing one of its references returned, if one did; else the
\* payload with every reference replaced by the frozen one, or an error of
\* its own.
PassFreezeResults(f) ==
    IF IsSome(ferror) THEN { Err(Unwrap(ferror)) }
    ELSE IF f.box.mode = "Complex"
    THEN { Ok([f.box.payload EXCEPT !.data = f.got]) }
            \cup { Err(e) : e \in Errors }
    ELSE { Ok(f.box.payload) }

\* The innermost into_simple returns: its value fills the reserved place and
\* the forward is returned to whoever asked, or its error is returned.
Return(res) ==
    /\ fstatus = "freezing"
    /\ fstack # << >>
    /\ Top.todo = << >> \/ IsSome(ferror)
    /\ LET f == Top
           r == into_simple(f.box, 1, res)
           rest == SubSeq(fstack, 1, Len(fstack) - 1)
       IN
        /\ nfreeze' = [nfreeze EXCEPT
                          ![f.node] = @ + Cardinality({ k \in 1..Len(r.pcalls) :
                                                         r.pcalls[k].fn = "freeze" })]
        /\ pfail' = IF IsNone(pfail) /\ IsNone(ferror) /\ ~res.ok
                    THEN res.err ELSE pfail
        /\ IF r.ret.ok
           THEN /\ fheap' = [fheap EXCEPT ![f.node] = r.ret.val]
                /\ ferror' = None
                /\ fstatus' = fstatus
                /\ fstack' =
                      IF rest = << >> THEN rest
                      ELSE [rest EXCEPT
                               ![Len(rest)].todo = Tail(@),
                               ![Len(rest)].got = @ \cup {Ref("frozen", f.node)}]
           ELSE /\ ferror' = r.ret.err
                /\ fstatus' = IF rest = << >> THEN "failed" ELSE fstatus
                /\ fstack' = rest
                /\ UNCHANGED fheap
    /\ UNCHANGED <<mheap, forward, born>>
    /\ UNCHANGED <<mapVars, wrapVars, iterVars, argsVars>>

\* Every value of the heap has been frozen.
Finish ==
    /\ fstatus = "freezing"
    /\ fstack = << >>
    /\ IsNone(ferror)
    /\ Allocated \subseteq forward
    /\ fstatus' = "frozen"
    /\ UNCHANGED <<mheap, forward, fheap, fstack, ferror, pfail, nfreeze, born>>
    /\ UNCHANGED <<mapVars, wrapVars, iterVars, argsVars>>

\* What a handle to the value n resolves to: a forward is followed.
Resolve(n) == IF n \in forward THEN fheap[n] ELSE mheap[n]

PassNext ==
    \/ \E mode \in {"Simple", "Complex"} : Alloc(mode)
    \/ \E i, j \in Nodes : AddRef(i, j)
    \/ StartFreeze
    \/ \E n \in Nodes : Enter(n)
    \/ Skip
    \/ fstack # << >> /\ \E res \in PassFreezeResults(Top) : Return(res)
    \/ Finish

\* ---------------------------------------------------------------- iterators
MaxIterLen == 2

\* The iterators of VecMap, named by the method that makes them.
Kinds ==
    { "keys", "values", "values_mut", "iter", "iter_mut", "iter_hashed",
      "into_iter", "into_iter_hashed" }

\* The map functions of the iterators not defined above; that of
\* VMIntoIterHash is the closure its methods pass to map.
VMValuesMut_map(b) == b.value
VMIterHash_map(b) == << [hash |-> b.hash, key |-> b.key], b.value >>
VMIterMut_map(b) == << b.key, b.value >>
VMIntoIter_map(b) == << b.key, b.value >>
VMIntoIterHash_map(b) == << [hash |-> b.hash, key |-> b.key], b.value >>

\* Self::map of the iterator of a kind.
Self_map(kind, b) ==
    CASE kind = "keys" -> VMKeys_map(b)
      [] kind = "values" -> VMValues_map(b)
      [] kind = "values_mut" -> VMValuesMut_map(b)
      [] kind = "iter" -> VMIter_map(b)
      [] kind = "iter_mut" -> VMIterMut_map(b)
      [] kind = "iter_hashed" -> VMIterHash_map(b)
      [] kind = "into_iter" -> VMIntoIter_map(b)
      [] kind = "into_iter_hashed" -> VMIntoIterHash_map(b)

\* Option::map with Self::map.
OptionMap(kind, o) == IF IsSome(o) THEN Some(Self_map(kind, Unwrap(o))) ELSE None

\* An iterator: its kind and self.iter, the buckets it has still to yield.
Iterator(kind, rest) == [kind |-> kind, rest |-> rest]

\* self.iter, a slice::Iter, slice::IterMut or vec::IntoIter: what its
\* methods return and the buckets it is left with.
Inner_next(rest) ==
    IF rest = << >> THEN [rest |-> rest, ret |-> None]
    ELSE [rest |-> Tail(rest), ret |-> Some(Head(rest))]

Inner_nth(rest, n) ==
    IF n < Len(rest)
    THEN [rest |-> SubSeq(rest, n + 2, Len(rest)), ret |-> Some(rest[n + 1])]
    ELSE [rest |-> << >>, ret |-> None]

Inner_next_back(rest) ==
    IF rest = << >> THEN [rest |-> rest, ret |-> None]
    ELSE [rest |-> SubSeq(rest, 1, Len(rest) - 1), ret |-> Some(rest[Len(rest)])]

Inner_len(rest) == Len(rest)

Inner_size_hint(rest) == << Len(rest), Some(Len(rest)) >>

\* Faulty variant: last takes the next item, not the one at the back.
def_iter_last_front(self) ==
    [ret |-> OptionMap(self.kind, Inner_next(self.rest).ret)]

\* def_iter!(): the methods of every iterator but VMIntoIterHash.
def_iter_next(self) ==
    LET r == Inner_next(self.rest) IN
    [self |-> Iterator(self.kind, r.rest), ret |-> OptionMap(self.kind, r.ret)]

def_iter_nth(self, n) ==
    LET r == Inner_nth(self.rest, n) IN
    [self |-> Iterator(self.kind, r.rest), ret |-> OptionMap(self.kind, r.ret)]

def_iter_last(self) ==
    [ret |-> OptionMap(self.kind, Inner_next_back(self.rest).ret)]

def_iter_size_hint(self) == [ret |-> Inner_size_hint(self.rest)]

def_iter_count(self) == [ret |-> Inner_len(self.rest)]

\* impl Iterator for VMIntoIterHash, written out.
VMIntoIterHash_next(self) ==
    LET r == Inner_next(self.rest) IN
    [self |-> Iterator(self.kind, r.rest),
     ret |-> IF IsSome(r.ret) THEN Some(VMIntoIterHash_map(Unwrap(r.ret)))
             ELSE None]

VMIntoIterHash_nth(self, n) ==
    LET r == Inner_nth(self.rest, n) IN
    [self |-> Iterator(self.kind, r.rest),
     ret |-> IF IsSome(r.ret) THEN Some(VMIntoIterHash_map(Unwrap(r.ret)))
             ELSE None]

VMIntoIterHash_last(self) ==
    LET r == Inner_next_back(self.rest) IN
    [ret |-> IF IsSome(r.ret) THEN Some(VMIntoIterHash_map(Unwrap(r.ret)))
             ELSE None]

VMIntoIterHash_size_hint(self) == [ret |-> Inner_size_hint(self.rest)]

VMIntoIterHash_count(self) == [ret |-> Inner_len(self.rest)]

\* impl ExactSizeIterator: self.iter.len(); for VMIter, whose impl is empty,
\* the provided len, which is the lower bound of size_hint.
ExactSize_len(self) ==
    IF self.kind = "iter" THEN [ret |-> def_iter_size_hint(self).ret[1]]
    ELSE [ret |-> Inner_len(self.rest)]

\* The methods of an iterator, by its kind.
Iter_next(self) ==
    IF self.kind = "into_iter_hashed" THEN VMIntoIterHash_next(self)
    ELSE def_iter_next(self)

Iter_nth(self, n) ==
    IF self.kind = "into_iter_hashed" THEN VMIntoIterHash_nth(self, n)
    ELSE def_iter_nth(self, n)

Iter_last(self) ==
    IF self.kind = "into_iter_hashed" THEN VMIntoIterHash_last(self)
    ELSE def_iter_last(self)

Iter_size_hint(self) ==
    IF self.kind = "into_iter_hashed" THEN VMIntoIterHash_size_hint(self)
    ELSE def_iter_size_hint(self)

Iter_count(self) ==
    IF self.kind = "into_iter_hashed" THEN VMIntoIterHash_count(self)
    ELSE def_iter_count(self)

IterInit ==
    /\ it = None
    /\ itop = "none"
    /\ itarg = 0
    /\ itret = None
    /\ itbefore = None

\* The map is filled before it is iterated: an iterator borrows the map, or
\* takes it, for as long as it is in use.
IterInsert(key, value) ==
    /\ itop = "none"
    /\ Len(buckets) < MaxIterLen
    /\ Insert(key, value)

\* map.keys(), map.values(), ..., map.into_iter_hashed().
NewIter(kind) ==
    /\ itop = "none"
    /\ it' = Some(Iterator(kind, buckets))
    /\ itop' = kind
    /\ itarg' = 0
    /\ itret' = None
    /\ itbefore' = None
    /\ UNCHANGED <<mapVars, wrapVars, passVars, argsVars>>

IterNext ==
    /\ IsSome(it)
    /\ LET r == Iter_next(Unwrap(it)) IN
        /\ it' = Some(r.self)
        /\ itret' = r.ret
    /\ itop' = "next"
    /\ itarg' = 0
    /\ itbefore' = it
    /\ UNCHANGED <<mapVars, wrapVars, passVars, argsVars>>

IterNth(n) ==
    /\ IsSome(it)
    /\ LET r == Iter_nth(Unwrap(it), n) IN
        /\ it' = Some(r.self)
        /\ itret' = r.ret
    /\ itop' = "nth"
    /\ itarg' = n
    /\ itbefore' = it
    /\ UNCHANGED <<mapVars, wrapVars, passVars, argsVars>>

\* last(mut self): the iterator is used up.
IterLast ==
    /\ IsSome(it)
    /\ it' = None
    /\ itret' = Iter_last(Unwrap(it)).ret
    /\ itop' = "last"
    /\ itarg' = 0
    /\ itbefore' = it
    /\ UNCHANGED <<mapVars, wrapVars, passVars, argsVars>>

IterSizeHint ==
    /\ IsSome(it)
    /\ itret' = Iter_size_hint(Unwrap(it)).ret
    /\ itop' = "size_hint"
    /\ itarg' = 0
    /\ itbefore' = it
    /\ UNCHANGED it
    /\ UNCHANGED <<mapVars, wrapVars, passVars, argsVars>>

IterLen ==
    /\ IsSome(it)
    /\ itret' = ExactSize_len(Unwrap(it)).ret
    /\ itop' = "len"
    /\ itarg' = 0
    /\ itbefore' = it
    /\ UNCHANGED it
    /\ UNCHANGED <<mapVars, wrapVars, passVars, argsVars>>

\* count(self): the iterator is used up.
IterCount ==
    /\ IsSome(it)
    /\ it' = None
    /\ itret' = Iter_count(Unwrap(it)).ret
    /\ itop' = "count"
    /\ itarg' = 0
    /\ itbefore' = it
    /\ UNCHANGED <<mapVars, wrapVars, passVars, argsVars>>

IterNextAction ==
    \/ \E key \in Handles, value \in Values : IterInsert(key, value)
    \/ \E kind \in Kinds : NewIter(kind)
    \/ IterNext
    \/ \E n \in 0..MaxIterLen : IterNth(n)
    \/ IterLast
    \/ IterSizeHint
    \/ IterLen
    \/ IterCount

\* ------------------------------------------------- handles and positions
\* The number of inserts into a map whose handles and positions are looked at.
MaxProbe == 2

ProbeInsert(key, value) ==
    /\ Len(log) < MaxProbe
    /\ Insert(key, value)

\* The handle that iter_hashed yields for the bucket at index i is given to
\* insert_unique_unchecked, with some value.
Reinsert(i, value) ==
    /\ Len(log) < MaxProbe
    /\ i < Len(buckets)
    /\ Insert(VMIterHash_map(buckets[i + 1])[1], value)

\* The items of into_iter_hashed, inserted one after the other into a map.
RECURSIVE InsertAll(_, _)
InsertAll(bs, items) ==
    IF items = << >> THEN bs
    ELSE InsertAll(insert_unique_unchecked(bs, Head(items)[1], Head(items)[2]),
                   Tail(items))

\* The map is taken by into_iter_hashed and made anew from what that yields.
Rebuild ==
    /\ buckets' = InsertAll(<< >>, [i \in 1..Len(buckets) |->
                                       VMIntoIterHash_map(buckets[i])])
    /\ op' = "into_iter_hashed"
    /\ arg' = <<None, None>>
    /\ ret' = None
    /\ before' = buckets
    /\ UNCHANGED <<log, gone>>
    /\ UNCHANGED <<wrapVars, passVars, iterVars, argsVars>>

GetIndexOfHashed(key) ==
    /\ op' = "get_index_of_hashed"
    /\ arg' = <<Some(key), None>>
    /\ ret' = get_index_of_hashed(buckets, key)
    /\ before' = buckets
    /\ UNCHANGED <<buckets, log, gone>>
    /\ UNCHANGED <<wrapVars, passVars, iterVars, argsVars>>

\* get_index(index), the index standing in the place of the value.
GetIndex(index) ==
    /\ op' = "get_index"
    /\ arg' = <<None, Some(index)>>
    /\ ret' = get_index(buckets, index)
    /\ before' = buckets
    /\ UNCHANGED <<buckets, log, gone>>
    /\ UNCHANGED <<wrapVars, passVars, iterVars, argsVars>>

\* get_unchecked(index), called as its contract demands: index < len.
GetUnchecked(index) ==
    /\ index < len(buckets)
    /\ op' = "get_unchecked"
    /\ arg' = <<None, Some(index)>>
    /\ ret' = Some(get_unchecked(buckets, index))
    /\ before' = buckets
    /\ UNCHANGED <<buckets, log, gone>>
    /\ UNCHANGED <<wrapVars, passVars, iterVars, argsVars>>

HashNext ==
    \/ \E key \in Handles, value \in Values : ProbeInsert(key, value)
    \/ \E i \in 0..(MaxProbe - 1), value \in Values : Reinsert(i, value)
    \/ Rebuild
    \/ \E key \in Handles : GetFull(key)
    \/ \E key \in Handles : GetIndexOfHashed(key)
    \/ \E index \in 0..(MaxProbe + 1) : GetIndex(index)
    \/ \E index \in 0..(MaxProbe + 1) : GetUnchecked(index)
    \/ \E key \in Handles : Remove(key)
    \/ Clear

\* ------------------------------------------------------- checking callers
\* A caller that inserts a key only after get_full has just missed it.
CheckedInsert(key, value) ==
    /\ op = "get_full"
    /\ arg[1] = Some(key)
    /\ IsNone(ret)
    /\ Insert(key, value)

UniqueNext ==
    \/ \E key \in Handles : GetFull(key)
    \/ \E key \in Handles, value \in Values : CheckedInsert(key, value)
    \/ \E key \in Handles : Remove(key)
    \/ Clear

\* ============================================================ call arguments
\* The compilation of the argument list of a call expression.
NumExprs == 2
NumNames == 2
MaxArgs == 3

\* The expressions of the syntax tree, and the names of named arguments.
\* The expressions of even number are literals, the others are not.
Exprs == 1..NumExprs
ArgNames == 1..NumNames

\* syntax::ast::ArgumentP, the four forms of an argument.
ArgumentP_Positional(x) == [kind |-> "Positional", name |-> None, expr |-> x]
ArgumentP_Named(name, value) ==
    [kind |-> "Named", name |-> Some(name), expr |-> value]
ArgumentP_Args(x) == [kind |-> "Args", name |-> None, expr |-> x]
ArgumentP_KwArgs(x) == [kind |-> "KwArgs", name |-> None, expr |-> x]

CstArgument ==
    { ArgumentP_Positional(x) : x \in Exprs }
        \cup { ArgumentP_Named(n, x) : n \in ArgNames, x \in Exprs }
        \cup { ArgumentP_Args(x) : x \in Exprs }
        \cup { ArgumentP_KwArgs(x) : x \in Exprs }

\* The syntax tree is validated before it is compiled: in the argument list
\* of a call, no positional argument follows a named one.
PositionalFirst(list) ==
    \A i, j \in 1..Len(list) :
        (list[i].kind = "Named" /\ list[j].kind = "Positional") => j < i

\* Compiler::expr, the compiled form of an expression; a literal compiles to
\* a frozen value.
Compiler_expr(x) ==
    [compiled |-> x,
     value |-> IF x % 2 = 0 THEN Some([frozen |-> x]) ELSE None]

\* ExprCompiled::as_value and FrozenValue::to_value.
as_value(e) == e.value
to_value(fv) == [value |-> fv.frozen]

\* Symbol::new and FrozenHeap::alloc_str, of the name of a named argument.
Symbol_new(name) == [symbol |-> name]
alloc_str(name) == [str |-> name]

\* ArgsCompiledValue::default().
ArgsCompiledValue_default ==
    [pos_named |-> <<>>, names |-> <<>>, args |-> None, kwargs |-> None]

\* One turn of the loop of Compiler::args with the named value pushed on
\* the front of pos_named.
Compiler_args_arm_named_front(res, x) ==
    CASE x.kind = "Positional" ->
            [res EXCEPT !.pos_named = Append(@, Compiler_expr(x.expr))]
      [] x.kind = "Named" ->
            [res EXCEPT
                !.names = Append(@,
                    <<Symbol_new(Unwrap(x.name)), alloc_str(Unwrap(x.name))>>),
                !.pos_named = <<Compiler_expr(x.expr)>> \o @]
      [] x.kind = "Args" ->
            [res EXCEPT !.args = Some(Compiler_expr(x.expr))]
      [] x.kind = "KwArgs" ->
            [res EXCEPT !.kwargs = Some(Compiler_expr(x.expr))]

\* One turn of the loop of Compiler::args: the match on the argument.
Compiler_args_arm(res, x) ==
    CASE x.kind = "Positional" ->
            [res EXCEPT !.pos_named = Append(@, Compiler_expr(x.expr))]
      [] x.kind = "Named" ->
            [res EXCEPT
                !.names = Append(@,
                    <<Symbol_new(Unwrap(x.name)), alloc_str(Unwrap(x.name))>>),
                !.pos_named = Append(@, Compiler_expr(x.expr))]
      [] x.kind = "Args" ->
            [res EXCEPT !.args = Some(Compiler_expr(x.expr))]
      [] x.kind = "KwArgs" ->
            [res EXCEPT !.kwargs = Some(Compiler_expr(x.expr))]

\* The loop of Compiler::args over the arguments from the one at index i.
RECURSIVE Compiler_args_from(_, _, _)
Compiler_args_from(res, args, i) ==
    IF i > Len(args) THEN res
    ELSE Compiler_args_from(Compiler_args_arm(res, args[i]), args, i + 1)

\* Compiler::args.
Compiler_args(args) == Compiler_args_from(ArgsCompiledValue_default, args, 1)

\* slice::split_at.
split_at(s, mid) == <<SubSeq(s, 1, mid), SubSeq(s, mid + 1, Len(s))>>

\* ArgsCompiledValue::split_pos_names.
split_pos_names(self) ==
    split_at(self.pos_named, Len(self.pos_named) - Len(self.names))

\* try_map over a slice of expressions: each one's value, or nothing when
\* one of them is not a value.
try_map_values(es) ==
    IF \A i \in 1..Len(es) : IsSome(as_value(es[i]))
    THEN Some([i \in 1..Len(es) |-> to_value(Unwrap(as_value(es[i])))])
    ELSE None

\* ArgsCompiledValue::all_values, with a handler that returns the Arguments
\* it was given.
all_values(self) ==
    LET split == split_pos_names(self)
        pos == try_map_values(split[1])
        named == try_map_values(split[2])
        args == try_map_values(self.args)
        kwargs == try_map_values(self.kwargs)
    IN  IF IsNone(pos) \/ IsNone(named) \/ IsNone(args) \/ IsNone(kwargs)
        THEN None
        ELSE Some([pos |-> Unwrap(pos), named |-> Unwrap(named),
                   names |-> self.names,
                   args |-> Unwrap(args), kwargs |-> Unwrap(kwargs)])

ArgsInit ==
    /\ cargs = <<>>
    /\ cres = None
    /\ cop = "parse"
    /\ cret = None

\* The parser adds an argument to the call expression.
ParseArgument(x) ==
    /\ cop = "parse"
    /\ Len(cargs) < MaxArgs
    /\ PositionalFirst(Append(cargs, x))
    /\ cargs' = Append(cargs, x)
    /\ UNCHANGED <<cres, cop, cret>>
    /\ UNCHANGED <<mapVars, wrapVars, passVars, iterVars>>

\* compiler.args(args)
CompileArgs ==
    /\ cop = "parse"
    /\ cres' = Some(Compiler_args(cargs))
    /\ cop' = "args"
    /\ UNCHANGED <<cargs, cret>>
    /\ UNCHANGED <<mapVars, wrapVars, passVars, iterVars>>

\* res.split_pos_names()
SplitPosNames ==
    /\ cop = "args"
    /\ cret' = Some(split_pos_names(Unwrap(cres)))
    /\ cop' = "split_pos_names"
    /\ UNCHANGED <<cargs, cres>>
    /\ UNCHANGED <<mapVars, wrapVars, passVars, iterVars>>

\* res.all_values(handler)
AllValues ==
    /\ cop = "args"
    /\ cret' = Some(all_values(Unwrap(cres)))
    /\ cop' = "all_values"
    /\ UNCHANGED <<cargs, cres>>
    /\ UNCHANGED <<mapVars, wrapVars, passVars, iterVars>>

ArgsNext ==
    \/ \E x \in CstArgument : ParseArgument(x)
    \/ CompileArgs
    \/ SplitPosNames
    \/ AllValues

\* ------------------------------------------------------------ specifications
Init == MapInit /\ WrapInit /\ PassInit /\ IterInit /\ ArgsInit

Next == MapNext

\* The map under every sequence of calls.
Spec == Init /\ [][Next]_vars

\* The heap values under every sequence of calls.
SpecWrapper == Init /\ [][WrapNext]_vars

\* The heap values under every sequence of calls, type queries and
\* capability-interface calls included.
SpecLife == Init /\ [][LifeNext]_vars

\* The freeze of a heap of values referencing each other.
SpecFreeze == Init /\ [][PassNext]_vars

\* A map is filled and then iterated.
SpecIter == Init /\ [][IterNextAction]_vars

\* A map whose handles come from hashing a key or from the map's own buckets.
SpecHash == Init /\ [][HashNext]_vars

\* The map under callers that check before they insert.
SpecUnique == Init /\ [][UniqueNext]_vars

\* The argument list of a call expression is parsed, compiled and used.
SpecArgs == Init /\ [][ArgsNext]_vars

\* ==================================================================== claims
\* The handle of the last map call, and helpers to state the claims.
ArgKey == Unwrap(arg[1])
ArgValue == Unwrap(arg[2])

\* BorrowHashed::new_unchecked(b.hash, &b.key): a bucket's own handle.
HandleOf(b) == [hash |-> b.hash, key |-> b.key]

\* The Rust indices of the buckets a handle matches.
Matching(bs, key) ==
    { i \in 0..(Len(bs) - 1) :
        bs[i + 1].hash = key.hash /\ Equivalent(key.key, bs[i + 1].key) }

Min(S) == CHOOSE i \in S : \A j \in S : i <= j

\* The (key, value) pairs of the log not taken out, in log order.
RECURSIVE SurvivingFrom(_)
SurvivingFrom(i) ==
    IF i > Len(log) THEN << >>
    ELSE (IF i \in gone THEN << >> ELSE << log[i] >>) \o SurvivingFrom(i + 1)

Surviving == SurvivingFrom(1)

\* The inserted keys are pairwise non-equivalent.
UniqueLog ==
    \A i, j \in 1..Len(log) : i # j => ~Equivalent(log[i][1], log[j][1])

\* C1: after inserts of pairwise non-equivalent keys and any removals, iter(),
\* keys() and values() yield exactly the surviving entries, in insertion order.
C1_OrderPreserved ==
    UniqueLog =>
        /\ iter(buckets) = Surviving
        /\ keys(buckets) = [i \in 1..Len(Surviving) |-> Surviving[i][1]]
        /\ values(buckets) = [i \in 1..Len(Surviving) |-> Surviving[i][2]]

\* Three unique inserts, then the middle one removed: first and third remain.
C1_Witness ==
    /\ UniqueLog
    /\ Len(log) = 3
    /\ gone = {2}
    /\ op = "remove_hashed_entry"
    /\ iter(buckets) = << log[1], log[3] >>

\* The keys of bs that collide with key a without being equivalent to it.
Colliding(bs, a) ==
    { i \in 0..(Len(bs) - 1) :
        bs[i + 1].hash = a.hash /\ ~Equivalent(a.key, bs[i + 1].key) }

\* C2: get_full with a's handle on a map holding a bucket of a colliding,
\* non-equivalent key b never returns b's bucket: it returns a bucket of the
\* map whose key is equivalent to a if there is one, and None otherwise.
C2_CollisionResolved ==
    (op = "get_full" /\ Colliding(before, ArgKey) # {}) =>
        IF \E i \in 1..Len(before) : Equivalent(ArgKey.key, before[i].key)
        THEN /\ IsSome(ret)
             /\ Unwrap(ret)[1] \notin Colliding(before, ArgKey)
             /\ Unwrap(ret)[1] < Len(before)
             /\ Equivalent(ArgKey.key, before[Unwrap(ret)[1] + 1].key)
             /\ Unwrap(ret)[2] = before[Unwrap(ret)[1] + 1].key
             /\ Unwrap(ret)[3] = before[Unwrap(ret)[1] + 1].value
        ELSE IsNone(ret)

\* get_full(a) walked past a colliding bucket at index 0 and found a at 1.
C2_Witness ==
    /\ op = "get_full"
    /\ 0 \in Colliding(before, ArgKey)
    /\ IsSome(ret)
    /\ Unwrap(ret)[1] = 1

\* get_full(a) on a map holding only a colliding key returned None.
C2_WitnessMiss ==
    /\ op = "get_full"
    /\ Colliding(before, ArgKey) # {}
    /\ IsNone(ret)

\* C3: with two or more buckets of equivalent keys, get_full returns the one of
\* smallest index and remove_hashed_entry removes the one of smallest index,
\* the later duplicates staying in place.
C3_FirstMatch ==
    /\ (op = "get_full" /\ Cardinality(Matching(before, ArgKey)) >= 2) =>
          LET i == Min(Matching(before, ArgKey)) IN
          ret = Some(<<i, before[i + 1].key, before[i + 1].value>>)
    /\ (op = "remove_hashed_entry" /\ Cardinality(Matching(before, ArgKey)) >= 2) =>
          LET i == Min(Matching(before, ArgKey)) IN
          /\ ret = Some(<<before[i + 1].key, before[i + 1].value>>)
          /\ buckets = SubSeq(before, 1, i) \o SubSeq(before, i + 2, Len(before))
          /\ Matching(buckets, ArgKey) =
                { j - 1 : j \in Matching(before, ArgKey) \ {i} }

\* Two buckets of one key with different values: the first was removed and
\* the second is what is left.
C3_Witness ==
    /\ op = "remove_hashed_entry"
    /\ Len(before) = 2
    /\ Matching(before, ArgKey) = {0, 1}
    /\ before[1].value # before[2].value
    /\ buckets = << before[2] >>

\* get_full answered with the first of two duplicates of different values.
C3_WitnessGet ==
    /\ op = "get_full"
    /\ Cardinality(Matching(before, ArgKey)) >= 2
    /\ before[Min(Matching(before, ArgKey)) + 1].value
          # before[Len(before)].value
    /\ IsSome(ret)

\* C4: on a map with no removals so far and no key equivalent to k,
\* insert_unique_unchecked(hashed(k), v) followed by get_full(hashed(k))
\* returns (len() before the insert, k, v).
C4_RoundTrip ==
    [][ ( /\ op = "insert_unique_unchecked"
          /\ gone = {}
          /\ \A i \in 1..Len(before) : ~Equivalent(ArgKey.key, before[i].key)
          /\ op' = "get_full"
          /\ arg'[1] = arg[1] )
        => ret' = Some(<<len(before), ArgKey.key, ArgValue>>) ]_vars

\* A fresh key was inserted into a non-empty map without removals, and the
\* map now answers get_full for it with the old length.
C4_Witness ==
    /\ op = "insert_unique_unchecked"
    /\ gone = {}
    /\ Len(before) = 2
    /\ \A i \in 1..Len(before) : ~Equivalent(ArgKey.key, before[i].key)
    /\ get_full(buckets, ArgKey) = Some(<<2, ArgKey.key, ArgValue>>)

\* C5 as stated: when remove_hashed_entry removes the bucket at index i it
\* returns that bucket's key and value, len() drops by one, every bucket at an
\* index j < i keeps index j, and every bucket at an index j > i is afterwards
\* found by get_full at index j - 1.
C5_RemoveShiftsAsStated ==
    (op = "remove_hashed_entry" /\ IsSome(ret)) =>
        \E i \in 0..(Len(before) - 1) :
            /\ ret = Some(<<before[i + 1].key, before[i + 1].value>>)
            /\ len(buckets) = len(before) - 1
            /\ \A j \in 0..(i - 1) : buckets[j + 1] = before[j + 1]
            /\ \A j \in (i + 1)..(Len(before) - 1) :
                  get_full(buckets, HandleOf(before[j + 1])) =
                      Some(<<j - 1, before[j + 1].key, before[j + 1].value>>)

\* C5, amended: when remove_hashed_entry removes the bucket at index i it
\* returns that bucket's key and value, len() drops by one, every bucket at an
\* index j < i keeps index j, every bucket at an index j > i is afterwards at
\* index j - 1 (get_index(j - 1) returns it), and get_full finds it at j - 1
\* whenever no bucket at a smaller index has an equivalent key.
C5_RemoveShifts ==
    (op = "remove_hashed_entry" /\ IsSome(ret)) =>
        \E i \in 0..(Len(before) - 1) :
            /\ i \in Matching(before, ArgKey)
            /\ ret = Some(<<before[i + 1].key, before[i + 1].value>>)
            /\ len(buckets) = len(before) - 1
            /\ \A j \in 0..(i - 1) : buckets[j + 1] = before[j + 1]
            /\ \A j \in (i + 1)..(Len(before) - 1) :
                  /\ buckets[j] = before[j + 1]
                  /\ get_index(buckets, j - 1) =
                        Some(<<before[j + 1].key, before[j + 1].value>>)
                  /\ (Min(Matching(buckets, HandleOf(before[j + 1]))) = j - 1) =>
                        get_full(buckets, HandleOf(before[j + 1])) =
                            Some(<<j - 1, before[j + 1].key, before[j + 1].value>>)

\* a, b, c with unique keys, then b removed: c is found at index 1.
C5_Witness ==
    /\ op = "remove_hashed_entry"
    /\ UniqueLog
    /\ Len(before) = 3
    /\ ret = Some(<<before[2].key, before[2].value>>)
    /\ buckets = << before[1], before[3] >>
    /\ get_full(buckets, HandleOf(before[3])) =
          Some(<<1, before[3].key, before[3].value>>)

\* C6: get_full and remove_hashed_entry return None exactly when no bucket has
\* both the handle's hash and a key equivalent to the handle's key, the empty
\* map included; what they return is always an Option, never an error; and a
\* remove_hashed_entry that returns None leaves the buckets as they were.
C6_MissIsNone ==
    /\ op = "get_full" =>
          /\ IsNone(ret) <=> Matching(before, ArgKey) = {}
          /\ IsNone(ret) \/ IsSome(ret)
          /\ buckets = before
    /\ op = "remove_hashed_entry" =>
          /\ IsNone(ret) <=> Matching(before, ArgKey) = {}
          /\ IsNone(ret) \/ IsSome(ret)
          /\ IsNone(ret) => buckets = before

\* remove_hashed_entry missed on a map of two buckets, one of them colliding
\* with the handle, and the buckets are as before.
C6_Witness ==
    /\ op = "remove_hashed_entry"
    /\ Len(before) = 2
    /\ Colliding(before, ArgKey) # {}
    /\ IsNone(ret)
    /\ buckets = before

\* Both calls missed on the empty map.
C6_WitnessEmpty ==
    /\ op \in {"get_full", "remove_hashed_entry"}
    /\ before = << >>
    /\ IsNone(ret)

\* The value the last heap-value call was made on.
Self == Unwrap(wself)

\* into_simple and trace on w do nothing, whatever the payload would do.
IsInert(w) ==
    /\ \A f \in Freezers, res \in FreezeResults :
          into_simple(w, f, res) = [ret |-> Ok(w), pcalls |-> << >>]
    /\ \A t \in Tracers, eff \in TraceEffects :
          trace(w, t, eff) = [self |-> w, pcalls |-> << >>, visits |-> {}]

\* C7: into_simple on a Simple-wrapped value succeeds, returns the very same
\* value (same payload, still Simple) and invokes no payload trace, no freeze
\* routine and no Freezer.
C7_SimpleIntoSimpleIdentity ==
    (wop = "into_simple" /\ Self.mode = "Simple") =>
        /\ wret = Some(Ok(Self))
        /\ boxes[wslot] = Some(Self)
        /\ pcalls = << >>
        /\ visits = {}

C7_Witness ==
    /\ wop = "into_simple"
    /\ Self.mode = "Simple"
    /\ wret = Some(Ok(Self))

\* C8: into_simple on a Complex-wrapped value invokes the payload's freeze
\* routine exactly once, with the given Freezer, and when that succeeds the
\* result is the frozen payload wrapped as Simple, on which into_simple is the
\* identity and trace is a no-op.
C8_ComplexIntoSimpleFreezes ==
    (wop = "into_simple" /\ Self.mode = "Complex") =>
        /\ Len(pcalls) = 1
        /\ pcalls[1].fn = "freeze"
        /\ pcalls[1].payload = Self.payload
        /\ pcalls[1].with = wwith
        /\ pcalls[1].out.ok =>
              /\ wret = Some(Ok(Wrapper("Simple", Unwrap(pcalls[1].out.val))))
              /\ boxes[wslot] = Unwrap(wret).val
              /\ IsInert(Unwrap(Unwrap(wret).val))

\* A Complex value was frozen into a Simple value of another payload.
C8_Witness ==
    /\ wop = "into_simple"
    /\ Self.mode = "Complex"
    /\ Unwrap(wret).ok
    /\ Unwrap(Unwrap(wret).val).mode = "Simple"
    /\ Unwrap(Unwrap(wret).val).payload # Self.payload

\* C9: into_simple on a Complex-wrapped value returns an error if and only if
\* the payload's freeze routine returned one, the error is the payload's own,
\* and no Simple value is produced then.
C9_FreezeErrorPropagates ==
    (wop = "into_simple" /\ Self.mode = "Complex") =>
        /\ ~Unwrap(wret).ok <=> ~pcalls[1].out.ok
        /\ ~pcalls[1].out.ok =>
              /\ Unwrap(wret).err = pcalls[1].out.err
              /\ IsNone(Unwrap(wret).val)
              /\ IsNone(boxes[wslot])

\* A Complex value's freeze failed with the second error and into_simple
\* returned that error, leaving no value.
C9_Witness ==
    /\ wop = "into_simple"
    /\ Self.mode = "Complex"
    /\ pcalls[1].out = Err(2)
    /\ wret = Some(Err(2))
    /\ IsNone(boxes[wslot])

\* C10: trace on a Simple-wrapped value visits nothing through the Tracer,
\* invokes nothing on the payload, and leaves the value and every other value
\* as they were.
C10_SimpleTraceNoOp ==
    [][ (wop' = "trace" /\ Unwrap(wself').mode = "Simple") =>
          /\ visits' = {}
          /\ pcalls' = << >>
          /\ boxes' = boxes
          /\ boxes'[wslot'] = wself' ]_vars

\* A Simple value was traced while another slot held a Complex value.
C10_Witness ==
    /\ wop = "trace"
    /\ Self.mode = "Simple"
    /\ boxes[wslot] = wself
    /\ \E s \in Slots : s # wslot /\ IsSome(boxes[s])
                        /\ Unwrap(boxes[s]).mode = "Complex"

\* C11: trace on a Complex-wrapped value calls the payload's own trace exactly
\* once, with the same Tracer, so that every reference the payload visits in
\* its trace is visited by the envelope's trace.
C11_ComplexTraceDelegates ==
    (wop = "trace" /\ Self.mode = "Complex") =>
        /\ Len(pcalls) = 1
        /\ pcalls[1].fn = "trace"
        /\ pcalls[1].payload = Self.payload
        /\ pcalls[1].with = wwith
        /\ pcalls[1].out.visits \subseteq visits
        /\ boxes[wslot] =
              Some(Wrapper("Complex",
                           [Self.payload EXCEPT !.data = pcalls[1].out.data]))

\* A Complex value was traced with the second Tracer and its payload visited
\* a reference.
C11_Witness ==
    /\ wop = "trace"
    /\ Self.mode = "Complex"
    /\ wwith = 2
    /\ Len(pcalls) = 1
    /\ pcalls[1].out.visits # {}
    /\ visits = pcalls[1].out.visits

\* C12: for a payload of type T wrapped as Simple or as Complex, the envelope
\* reports T's own type identity, a downcast to T yields the original payload,
\* a downcast to any other type fails, and the mode does not change the answer.
C12_TypeIdentityTransparent ==
    /\ \A x \in Payloads :
          /\ static_type_id(simple(x)) = Payload_static_type_id(x)
          /\ static_type_id(complex(x)) = Payload_static_type_id(x)
    /\ wop = "downcast" =>
          /\ static_type_of(Self) = Payload_static_type_id(Self.payload)
          /\ wret = IF wwith = Payload_static_type_id(Self.payload)
                    THEN Some(Self.payload) ELSE None
          /\ \A mode \in {"Simple", "Complex"} :
                downcast_ref(Wrapper(mode, Self.payload), wwith) = wret

\* A Complex-wrapped payload was downcast to its own type and came back.
C12_Witness ==
    /\ wop = "downcast"
    /\ Self.mode = "Complex"
    /\ wret = Some(Self.payload)

\* A Simple-wrapped payload was downcast to another type and nothing came back.
C12_WitnessMiss ==
    /\ wop = "downcast"
    /\ Self.mode = "Simple"
    /\ wwith # Self.payload.ty
    /\ wret = None

\* The value a successful into_simple returned.
Returned == Unwrap(Unwrap(wret).val)

HasMode(b, mode) == IsSome(b) /\ Unwrap(b).mode = mode

\* C14: under every sequence of trace, into_simple, downcast and
\* capability-interface calls, a value that is Simple stays Simple, and a
\* payload's freeze routine is only ever invoked by into_simple on a Complex
\* value, once, after which that value is Complex no more: it is either the
\* Simple value that was returned or, on failure, gone.
C14_OneWay ==
    [][ \A s \in Slots :
          /\ HasMode(boxes[s], "Simple") => HasMode(boxes'[s], "Simple")
          /\ (\E i \in 1..Len(pcalls') : pcalls'[i].fn = "freeze" /\ wslot' = s)
                => /\ wop' = "into_simple"
                   /\ HasMode(boxes[s], "Complex")
                   /\ Len(pcalls') = 1
                   /\ ~HasMode(boxes'[s], "Complex")
                   /\ Unwrap(wret').ok => HasMode(boxes'[s], "Simple")
                   /\ ~Unwrap(wret').ok => IsNone(boxes'[s])
          /\ (HasMode(boxes[s], "Complex") /\ ~HasMode(boxes'[s], "Complex"))
                => wop' = "into_simple" /\ wslot' = s ]_vars

\* into_simple on a Complex value succeeded, and the value is Simple now.
C14_Witness ==
    /\ wop = "into_simple"
    /\ Self.mode = "Complex"
    /\ Unwrap(wret).ok
    /\ Len(pcalls) = 1
    /\ HasMode(boxes[wslot], "Simple")

\* C18: for both modes and every capability-interface method, the envelope
\* calls the payload's method of the same name once with the same arguments
\* and returns what it returned, error included; the answer is the same in
\* both modes.
C18_PureForwarding ==
    wop \in Methods =>
        /\ Len(pcalls) = 1
        /\ pcalls[1].fn = wop
        /\ pcalls[1].payload = Self.payload
        /\ pcalls[1].with = wwith
        /\ wret = Some(pcalls[1].out.ret)
        /\ HasMode(boxes[wslot], Self.mode)
        /\ \A mode \in {"Simple", "Complex"} :
              LET r == Wrapper_method(Wrapper(mode, Self.payload), wop, wwith,
                                      pcalls[1].out) IN
              /\ r.ret = pcalls[1].out.ret
              /\ r.pcalls = pcalls

\* set_attr on a Complex value failed in the payload with error 2, and error
\* 2 is what the caller got.
C18_Witness ==
    /\ wop = "set_attr"
    /\ Self.mode = "Complex"
    /\ wwith = 1
    /\ wret = Some(Err(2))
    /\ pcalls[1].out.ret = Err(2)

\* export_as on a Simple value returned the payload's answer.
C18_WitnessSimple ==
    /\ wop = "export_as"
    /\ Self.mode = "Simple"
    /\ wret = Some(Ok(1))

Parents(n) ==
    { p \in Nodes : IsSome(born[p])
                    /\ Ref("mutable", n) \in Unwrap(born[p]).payload.data }

\* C15: in a freeze pass over values referencing each other, the freeze
\* routine of a Complex value's payload is never invoked twice, and when the
\* pass has succeeded it has been invoked exactly once for each Complex value
\* (and never for a Simple one), however many values reference it.
C15_FreezeOnce ==
    /\ \A n \in Nodes : nfreeze[n] <= 1
    /\ fstatus = "frozen" =>
          \A n \in Allocated :
              nfreeze[n] = IF HasMode(born[n], "Complex") THEN 1 ELSE 0

\* The pass succeeded on a heap with a Complex value that two other values
\* referenced.
C15_Witness ==
    /\ fstatus = "frozen"
    /\ \E n \in Allocated :
          /\ HasMode(born[n], "Complex")
          /\ Cardinality(Parents(n) \ {n}) >= 2
          /\ nfreeze[n] = 1

\* C16: after a successful freeze pass every handle resolves to a Simple
\* value of the frozen heap, the mutable original is gone, and every
\* reference a frozen value holds is to the frozen value of what the
\* original referenced.
C16_HandlesResolveToFrozen ==
    fstatus = "frozen" =>
        \A n \in Allocated :
            /\ IsNone(mheap[n])
            /\ HasMode(Resolve(n), "Simple")
            /\ Unwrap(Resolve(n)).payload.data =
                  { Ref("frozen", r.id) : r \in Unwrap(born[n]).payload.data }
            /\ \A r \in Unwrap(Resolve(n)).payload.data :
                  HasMode(fheap[r.id], "Simple")

\* A Complex value referencing another Complex value: both are frozen and the
\* outer's frozen value references the inner's.
C16_Witness ==
    /\ fstatus = "frozen"
    /\ \E outer, inner \in Allocated :
          /\ outer # inner
          /\ HasMode(born[outer], "Complex")
          /\ HasMode(born[inner], "Complex")
          /\ outer \in Parents(inner)
          /\ Ref("frozen", inner) \in Unwrap(fheap[outer]).payload.data
          /\ HasMode(fheap[inner], "Simple")

\* C17: once a payload's freeze routine has failed, its error is the one
\* being returned through every into_simple in progress and reported when the
\* pass ends as failed; from then on no further value is taken to be frozen
\* and the frozen heap stays as it is, what was frozen before included.
C17_StopsAtFirstFailure ==
    [][ /\ IsSome(pfail') =>
              /\ ferror' = pfail'
              /\ fstatus' \in {"freezing", "failed"}
              /\ fstack' = << >> => fstatus' = "failed"
        /\ fstatus' = "failed" => IsSome(pfail') /\ ferror' = pfail'
        /\ IsSome(pfail) =>
              /\ forward' = forward
              /\ fheap' = fheap
              /\ Len(fstack') < Len(fstack) ]_vars

\* The pass has failed with the error of a payload's freeze routine; a value
\* frozen before the failure is frozen still, and a value was never reached.
C17_Witness ==
    /\ fstatus = "failed"
    /\ ferror = Some(2)
    /\ pfail = Some(2)
    /\ \E n \in Allocated : HasMode(fheap[n], "Simple") /\ nfreeze[n] = 1
    /\ Allocated \ forward # {}

\* The items an iterator yields when it is exhausted with next(), in order.
RECURSIVE Exhaust(_)
Exhaust(self) ==
    LET r == Iter_next(self) IN
    IF IsNone(r.ret) THEN << >>
    ELSE << Unwrap(r.ret) >> \o Exhaust(r.self)

\* The iterator the last call was made on.
ItSelf == Unwrap(itbefore)

\* C20: for every kind of iterator and at every point of its consumption,
\* len, size_hint and count report the number of items next() will still
\* yield, and last() returns the item that exhausting the iterator with
\* next() yields last, which is the projection of the last bucket of the map
\* (None when no item is left).
C20_ExactCountAndLast ==
    /\ IsSome(it) =>
          /\ ExactSize_len(Unwrap(it)).ret = Len(Exhaust(Unwrap(it)))
          /\ Iter_size_hint(Unwrap(it)).ret
                = << Len(Exhaust(Unwrap(it))), Some(Len(Exhaust(Unwrap(it)))) >>
          /\ Iter_count(Unwrap(it)).ret = Len(Exhaust(Unwrap(it)))
    /\ itop = "len" => itret = Len(Exhaust(ItSelf))
    /\ itop = "size_hint" =>
          itret = << Len(Exhaust(ItSelf)), Some(Len(Exhaust(ItSelf))) >>
    /\ itop = "count" => itret = Len(Exhaust(ItSelf))
    /\ itop = "last" =>
          LET items == Exhaust(ItSelf) IN
          IF items = << >> THEN itret = None
          ELSE /\ itret = Some(items[Len(items)])
               /\ itret = Some(Self_map(ItSelf.kind, buckets[Len(buckets)]))
    /\ (itop \in {"next", "nth"} /\ IsSome(itret)) =>
          /\ Len(Exhaust(Unwrap(it)))
                = Len(Exhaust(ItSelf)) - (itarg + 1)
          /\ itret = Some(Exhaust(ItSelf)[itarg + 1])
    /\ itop \in Kinds =>
          Exhaust(Unwrap(it))
              = [i \in 1..Len(buckets) |-> Self_map(itop, buckets[i])]

\* last() on an iterator over two buckets of different keys and values,
\* one of them taken already, returned the projection of the second.
C20_Witness ==
    /\ itop = "last"
    /\ Len(buckets) = 2
    /\ buckets[1].key # buckets[2].key
    /\ buckets[1].value # buckets[2].value
    /\ Len(ItSelf.rest) = 1
    /\ ItSelf.kind = "iter_hashed"
    /\ itret = Some(<< [hash |-> buckets[2].hash, key |-> buckets[2].key],
                       buckets[2].value >>)

\* count() on a consuming iterator with two items left returned 2.
C20_WitnessCount ==
    /\ itop = "count"
    /\ ItSelf.kind = "into_iter_hashed"
    /\ itret = 2

\* C21: the hash stored in every bucket is the hash function applied to the
\* bucket's key; insert stores the hash of the handle it is given, a lookup
\* that hits has matched the stored hash against the handle's, and
\* iter_hashed and into_iter_hashed attach the stored hash to the key.
C21_StoredHashIsKeyHash ==
    /\ \A i \in 1..Len(buckets) :
          /\ buckets[i].hash = HashFn(buckets[i].key)
          /\ VMIterHash_map(buckets[i])[1]
                = [hash |-> buckets[i].hash, key |-> buckets[i].key]
          /\ VMIntoIterHash_map(buckets[i])[1]
                = [hash |-> buckets[i].hash, key |-> buckets[i].key]
    /\ op = "insert_unique_unchecked" =>
          buckets[Len(buckets)].hash = ArgKey.hash
    /\ (op = "get_full" /\ IsSome(ret)) =>
          before[Unwrap(ret)[1] + 1].hash = ArgKey.hash
    /\ op = "into_iter_hashed" => buckets = before

\* A handle that iter_hashed yielded for a bucket was inserted: two buckets
\* of one key, both with that key's hash.
C21_Witness ==
    /\ op = "insert_unique_unchecked"
    /\ Len(buckets) = 2
    /\ buckets[1].key = buckets[2].key
    /\ buckets[1].key = 1
    /\ buckets[2].hash = HashFn(1)

\* C23: an index that get_full or get_index_of_hashed returns is below len()
\* and get_index of it returns the key and value that get_full returns;
\* get_index(i) is None exactly when i >= len().
C23_IndexIsValid ==
    /\ (op = "get_full" /\ IsSome(ret)) =>
          /\ Unwrap(ret)[1] < len(before)
          /\ get_index(before, Unwrap(ret)[1])
                = Some(<< Unwrap(ret)[2], Unwrap(ret)[3] >>)
          /\ get_index_of_hashed(before, ArgKey) = Some(Unwrap(ret)[1])
    /\ (op = "get_index_of_hashed" /\ IsSome(ret)) =>
          /\ Unwrap(ret) < len(before)
          /\ get_full(before, ArgKey)
                = Some(<< Unwrap(ret) >> \o Unwrap(get_index(before, Unwrap(ret))))
    /\ (op = "get_index_of_hashed" /\ IsNone(ret)) =>
          IsNone(get_full(before, ArgKey))
    /\ op = "get_index" =>
          /\ IsNone(ret) <=> ArgValue >= len(before)
          /\ IsSome(ret) =>
                Unwrap(ret) = << before[ArgValue + 1].key,
                                 before[ArgValue + 1].value >>
    /\ op = "get_unchecked" =>
          get_index(before, ArgValue)
              = Some(<< Unwrap(ret).key, Unwrap(ret).value >>)

\* get_index_of_hashed found the second of two buckets, at index 1.
C23_Witness ==
    /\ op = "get_index_of_hashed"
    /\ Len(before) = 2
    /\ ret = Some(1)
    /\ get_index(before, 1) = Some(<< ArgKey.key, before[2].value >>)

\* get_index(len()) returned None on a map that is not empty.
C23_WitnessNone ==
    /\ op = "get_index"
    /\ Len(before) = 2
    /\ ArgValue = 2
    /\ ret = None

\* C22: insert_unique_unchecked pushes exactly one bucket, of the given
\* handle and value, at the end and returns nothing: len() grows by one and
\* every bucket there was keeps its index, key and value, also when a bucket
\* of an equivalent key exists, which then has a duplicate.
C22_InsertAppendsOne ==
    op = "insert_unique_unchecked" =>
        /\ ret = None
        /\ len(buckets) = len(before) + 1
        /\ \A i \in 0..(len(before) - 1) :
              /\ buckets[i + 1] = before[i + 1]
              /\ get_index(buckets, i) = get_index(before, i)
        /\ buckets[len(buckets)] = Bucket(ArgKey.hash, ArgKey.key, ArgValue)
        /\ get_index(buckets, len(before)) = Some(<< ArgKey.key, ArgValue >>)
        /\ Cardinality(Matching(buckets, ArgKey))
              = Cardinality(Matching(before, ArgKey)) + 1

\* A key already in the map, with another value, was inserted: the map holds
\* both buckets.
C22_Witness ==
    /\ op = "insert_unique_unchecked"
    /\ Len(before) = 2
    /\ Matching(before, ArgKey) = {0}
    /\ before[1].value # ArgValue
    /\ Matching(buckets, ArgKey) = {0, 2}

\* C24: when every insert_unique_unchecked follows a get_full of the same
\* handle that returned None, then after any interleaving of such inserts,
\* remove_hashed_entry and clear no two buckets have equivalent keys.
C24_NoDuplicates ==
    \A i, j \in 1..Len(buckets) :
        i # j => ~Equivalent(buckets[i].key, buckets[j].key)

\* A key was inserted, removed and inserted again next to another key: the
\* map holds one bucket of each.
C24_Witness ==
    /\ op = "insert_unique_unchecked"
    /\ Len(log) = 3
    /\ log[1][1] = log[3][1]
    /\ log[2][1] # log[1][1]
    /\ HashFn(log[2][1]) = HashFn(log[1][1])
    /\ Len(buckets) = 2
    /\ buckets[2].key = log[1][1]

\* The positional and the named arguments of the call being compiled, each
\* in source order, and the compiled expressions and values of a list.
IsPositionalArgument(x) == x.kind = "Positional"
IsNamedArgument(x) == x.kind = "Named"
PositionalArguments == SelectSeq(cargs, IsPositionalArgument)
NamedArguments == SelectSeq(cargs, IsNamedArgument)
CompiledOf(list) == [i \in 1..Len(list) |-> Compiler_expr(list[i].expr)]
ValuesOf(list) ==
    [i \in 1..Len(list) |->
        to_value(Unwrap(as_value(Compiler_expr(list[i].expr))))]
NameOf(x) == <<Symbol_new(Unwrap(x.name)), alloc_str(Unwrap(x.name))>>

C25_WitnessAllValues ==
    /\ cop = "all_values"
    /\ IsSome(Unwrap(cret))
    /\ Len(PositionalArguments) >= 1
    /\ Len(NamedArguments) >= 1

====
